---- MODULE Spec2Model ----
(***************************************************************************)
(* Handai desktop host (desktop/tauri/src-tauri/src/main.rs).              *)
(*                                                                         *)
(* The model follows three threads of control of the Tauri host:           *)
(*   - the setup hook (main.rs 82-131), run once on the event thread       *)
(*     before the event loop dispatches any window event;                  *)
(*   - the window-event handler (main.rs 132-144), run on the event        *)
(*     thread once the loop is running;                                    *)
(*   - the background thread started at main.rs 117, which runs            *)
(*     wait_for_server (main.rs 34-46) and then navigates or logs.         *)
(*                                                                         *)
(* Time is counted in ticks of 100 ms, measured from the start of          *)
(* wait_for_server.  A connection attempt is taken to be instantaneous     *)
(* and thread::sleep to last exactly the requested 300 ms, so the only     *)
(* thing that moves the clock is the sleep of the polling loop.            *)
(***************************************************************************)
EXTENDS Integers, Sequences, FiniteSets

VARIABLES
    build,       \* "release" or "debug": cfg(debug_assertions)
    mainPc,      \* position of the setup hook / event thread
    dirCreated,  \* result of create_dir_all, "none" before it ran
    spawned,     \* TRUE once the sidecar process has really been spawned
    dataDir,     \* Option: the directory app_data_dir() resolved
    env,         \* Option: the environment the spawned child was given
    probers,     \* number of background threads started
    slot,        \* ServerState: Option<CommandChild> inside the Mutex
    lock,        \* holder of the Mutex: "free", "setup" or "close"
    puts,        \* number of stores of Some(child) into the slot
    open,        \* windows that still exist
    closePc,     \* position of the CloseRequested handler
    closeWin,    \* window whose CloseRequested is being handled (0: none)
    child,       \* the handler's local `child`: the result of take()
    seen,        \* the slot as the last take() found it
    takes,       \* number of take() calls made
    someTakes,   \* number of take() calls that returned Some
    kills,       \* number of child.kill() requests issued
    lastKill,    \* result of the last child.kill(): "none", "ok" or "err"
    handlerErr,  \* TRUE if a CloseRequested handler ended in an error
    closes,      \* number of CloseRequested handlers that ran to the end
    proberPc,    \* position of the background thread
    now,         \* ticks elapsed since wait_for_server started
    acceptAt,    \* {} if the port never accepts, {d} if it accepts from tick d
    readiness,   \* "Starting", "Ready" or "Failed": outcome of wait_for_server
    readyCount,  \* number of times wait_for_server returned true
    navCount,    \* number of window.eval navigations issued
    diagCount    \* number of timeout diagnostics printed

vars == <<build, mainPc, dirCreated, spawned, slot, lock, puts, open, closePc,
          closeWin, child, seen, takes, someTakes, kills, lastKill, handlerErr,
          closes, proberPc, now, acceptAt, readiness, readyCount, navCount,
          diagCount, dataDir, env, probers>>

setupVars == <<build, mainPc, dirCreated, spawned, dataDir, env, probers>>
closeVars == <<open, closePc, closeWin, child, seen, takes, someTakes, kills,
               lastKill, handlerErr, closes>>
probeVars == <<proberPc, now, acceptAt, readiness, readyCount, navCount,
               diagCount>>

(***************************************************************************)
(* Constants of the program and bounds of the model.                       *)
(***************************************************************************)
PORT == 3947
\* thread::sleep(Duration::from_millis(300)), in ticks of 100 ms
PollInterval == 3
\* wait_for_server(PORT, 20): Duration::from_secs(20), in ticks of 100 ms
Deadline == 200

\* Windows of the application; window 1 is the one labelled "main".
NumWindows == 2
\* Latest tick at which the port may start accepting connections.
MaxAccept == 204

Windows == 1..NumWindows
MainWindow == 1
Results == {"ok", "err"}

\* Option<T>
None == <<>>
Some(x) == <<x>>
\* the CommandChild returned by spawn()
Child == "child"

\* every instant at which the port may start accepting, or never
AcceptChoices == {{d} : d \in 0..MaxAccept} \cup {{}}

\* the io::Error kinds a failed TcpStream::connect may carry
ConnectErrors == {"refused", "reset", "other"}

\* TcpStream::connect(addr).is_ok() at tick t
Accepting(t) == \E d \in acceptAt : t >= d

\* the directory app_data_dir() resolves to
AppDataPath == "appdata"

\* format!("file:{}/handai.db", data_dir.display())
DbUrl(dir) == <<"file:", dir, "/handai.db">>

\* the .env(..) overlay of the sidecar command, for the resolved directory
ChildEnv(dir) ==
    [PORT |-> PORT,
     HOSTNAME |-> "127.0.0.1",
     NODE_ENV |-> "production",
     DATABASE_URL |-> DbUrl(dir[1])]

\* format!("http://127.0.0.1:{PORT}")
get_server_url == <<"http://127.0.0.1:", PORT>>

(***************************************************************************)
(* Initial state: Builder::manage(ServerState(Mutex::new(None))), nothing  *)
(* run yet.                                                                *)
(***************************************************************************)
Init ==
    /\ build \in {"release", "debug"}
    /\ mainPc = "setup"
    /\ dirCreated = "none"
    /\ spawned = FALSE
    /\ slot = None
    /\ lock = "free"
    /\ puts = 0
    /\ open = Windows
    /\ closePc = "idle"
    /\ closeWin = 0
    /\ child = None
    /\ seen = None
    /\ takes = 0
    /\ someTakes = 0
    /\ kills = 0
    /\ lastKill = "none"
    /\ handlerErr = FALSE
    /\ closes = 0
    /\ proberPc = "none"
    /\ now = 0
    /\ acceptAt = {}
    /\ readiness = "Starting"
    /\ readyCount = 0
    /\ navCount = 0
    /\ diagCount = 0
    /\ dataDir = None
    /\ env = None
    /\ probers = 0

(***************************************************************************)
(* The setup hook.                                                         *)
(***************************************************************************)
\* debug build: the cfg(not(debug_assertions)) block is compiled out
SetupDebug ==
    /\ mainPc = "setup"
    /\ build = "debug"
    /\ mainPc' = "loop"
    /\ UNCHANGED <<dataDir, env, probers, build, dirCreated, spawned, slot, lock, puts>>
    /\ UNCHANGED closeVars
    /\ UNCHANGED probeVars

\* app_data_dir().expect("app data dir unavailable")
AppDataDir ==
    /\ mainPc = "setup"
    /\ build = "release"
    /\ \E r \in Results :
          /\ mainPc' = IF r = "ok" THEN "mkdir" ELSE "panicked"
          /\ dataDir' = IF r = "ok" THEN Some(AppDataPath) ELSE None
    /\ UNCHANGED <<env, probers, build, dirCreated, spawned, slot, lock, puts>>
    /\ UNCHANGED closeVars
    /\ UNCHANGED probeVars

\* a bug: create_dir_all(..).expect(..): the failure is fatal
CreateDirAllFatal ==
    /\ mainPc = "mkdir"
    /\ \E r \in Results :
          /\ dirCreated' = r
          /\ mainPc' = IF r = "ok" THEN "sidecar" ELSE "panicked"
    /\ UNCHANGED <<dataDir, env, probers, build, spawned, slot, lock, puts>>
    /\ UNCHANGED closeVars
    /\ UNCHANGED probeVars

\* std::fs::create_dir_all(&data_dir).ok(): the result is discarded
CreateDirAll ==
    /\ mainPc = "mkdir"
    /\ \E r \in Results : dirCreated' = r
    /\ mainPc' = "sidecar"
    /\ UNCHANGED <<dataDir, env, probers, build, spawned, slot, lock, puts>>
    /\ UNCHANGED closeVars
    /\ UNCHANGED probeVars

\* shell().sidecar("node").expect("node sidecar not configured")
Sidecar ==
    /\ mainPc = "sidecar"
    /\ \E r \in Results :
          mainPc' = IF r = "ok" THEN "spawn" ELSE "panicked"
    /\ UNCHANGED <<dataDir, env, probers, build, dirCreated, spawned, slot, lock, puts>>
    /\ UNCHANGED closeVars
    /\ UNCHANGED probeVars

\* a bug: the failed spawn is not fatal and the setup goes on to the store
SpawnErrorIgnored ==
    /\ mainPc = "spawn"
    /\ \E r \in Results :
          /\ spawned' = (r = "ok")
          /\ env' = IF r = "ok" THEN Some(ChildEnv(dataDir)) ELSE None
          /\ mainPc' = "put"
    /\ UNCHANGED <<dataDir, probers, build, dirCreated, slot, lock, puts>>
    /\ UNCHANGED closeVars
    /\ UNCHANGED probeVars

\* .spawn().expect("Failed to spawn Next.js server")
Spawn ==
    /\ mainPc = "spawn"
    /\ \E r \in Results :
          /\ spawned' = (r = "ok")
          /\ env' = IF r = "ok" THEN Some(ChildEnv(dataDir)) ELSE None
          /\ mainPc' = IF r = "ok" THEN "put" ELSE "panicked"
    /\ UNCHANGED <<dataDir, probers, build, dirCreated, slot, lock, puts>>
    /\ UNCHANGED closeVars
    /\ UNCHANGED probeVars

\* state.0.lock().unwrap()
PutLock ==
    /\ mainPc = "put"
    /\ lock = "free"
    /\ lock' = "setup"
    /\ mainPc' = "putLocked"
    /\ UNCHANGED <<dataDir, env, probers, build, dirCreated, spawned, slot, puts>>
    /\ UNCHANGED closeVars
    /\ UNCHANGED probeVars

\* a bug: the store is made a second time
PutStoreRepeats ==
    /\ mainPc = "putLocked"
    /\ slot' = Some(Child)
    /\ puts' = puts + 1
    /\ lock' = "free"
    /\ mainPc' = IF puts = 0 THEN "put" ELSE "thread"
    /\ UNCHANGED <<dataDir, env, probers, build, dirCreated, spawned>>
    /\ UNCHANGED closeVars
    /\ UNCHANGED probeVars

\* *guard = Some(child); the guard is dropped at the end of the statement
PutStore ==
    /\ mainPc = "putLocked"
    /\ slot' = Some(Child)
    /\ puts' = puts + 1
    /\ lock' = "free"
    /\ mainPc' = "thread"
    /\ UNCHANGED <<dataDir, env, probers, build, dirCreated, spawned>>
    /\ UNCHANGED closeVars
    /\ UNCHANGED probeVars

\* a bug: a second background thread is started
ThreadSpawnTwice ==
    /\ mainPc = "thread"
    /\ probers' = probers + 1
    /\ proberPc' = "poll"
    /\ now' = 0
    /\ acceptAt' \in AcceptChoices
    /\ mainPc' = IF probers = 0 THEN "thread" ELSE "loop"
    /\ UNCHANGED <<dataDir, env, build, dirCreated, spawned, slot, lock, puts>>
    /\ UNCHANGED closeVars
    /\ UNCHANGED <<readiness, readyCount, navCount, diagCount>>

\* thread::spawn(move || { if wait_for_server(PORT, 20) ... }); Ok(())
\* The port's behaviour is the environment's: it is fixed here, when the
\* clock of wait_for_server starts.
ThreadSpawn ==
    /\ mainPc = "thread"
    /\ probers' = probers + 1
    /\ proberPc' = "poll"
    /\ now' = 0
    /\ acceptAt' \in AcceptChoices
    /\ mainPc' = "loop"
    /\ UNCHANGED <<dataDir, env, build, dirCreated, spawned, slot, lock, puts>>
    /\ UNCHANGED closeVars
    /\ UNCHANGED <<readiness, readyCount, navCount, diagCount>>

(***************************************************************************)
(* The background thread: wait_for_server(PORT, 20), then the navigation   *)
(* or the diagnostic.  Each action of the loop is one whole iteration.     *)
(***************************************************************************)
\* a bug: the deadline is taken one second too long
DeadlinePassedLate(t) == t > Deadline + 10

\* Instant::now() > deadline
DeadlinePassed(t) == t > Deadline

\* a bug: the timeout falls through to the navigation
ProbeDeadlineNavigates ==
    /\ proberPc = "poll"
    /\ DeadlinePassed(now)
    /\ readiness' = "Failed"
    /\ proberPc' = "nav"
    /\ UNCHANGED <<now, acceptAt, readyCount, navCount, diagCount>>
    /\ UNCHANGED setupVars
    /\ UNCHANGED <<slot, lock, puts>>
    /\ UNCHANGED closeVars

\* the deadline has passed at the top of the loop: return false
ProbeDeadline ==
    /\ proberPc = "poll"
    /\ DeadlinePassed(now)
    /\ readiness' = "Failed"
    /\ proberPc' = "diag"
    /\ UNCHANGED <<now, acceptAt, readyCount, navCount, diagCount>>
    /\ UNCHANGED setupVars
    /\ UNCHANGED <<slot, lock, puts>>
    /\ UNCHANGED closeVars

\* a bug: the successful connect signals Ready but does not leave the loop
ProbeConnectOkNoReturn ==
    /\ proberPc = "poll"
    /\ ~DeadlinePassed(now)
    /\ Accepting(now)
    /\ readiness' = "Ready"
    /\ readyCount' = readyCount + 1
    /\ UNCHANGED <<proberPc, now, acceptAt, navCount, diagCount>>
    /\ UNCHANGED setupVars
    /\ UNCHANGED <<slot, lock, puts>>
    /\ UNCHANGED closeVars

\* the deadline has not passed and TcpStream::connect succeeds: return true
ProbeConnectOk ==
    /\ proberPc = "poll"
    /\ ~DeadlinePassed(now)
    /\ Accepting(now)
    /\ readiness' = "Ready"
    /\ readyCount' = readyCount + 1
    /\ proberPc' = "nav"
    /\ UNCHANGED <<now, acceptAt, navCount, diagCount>>
    /\ UNCHANGED setupVars
    /\ UNCHANGED <<slot, lock, puts>>
    /\ UNCHANGED closeVars

\* a bug: only a refused or reset connection is retried, any other error
\* ends the wait at once
ProbeRetryFatalOther ==
    /\ proberPc = "poll"
    /\ ~DeadlinePassed(now)
    /\ ~Accepting(now)
    /\ \E e \in ConnectErrors :
          IF e = "other"
             THEN /\ readiness' = "Failed"
                  /\ proberPc' = "diag"
                  /\ UNCHANGED now
             ELSE /\ now' = now + PollInterval
                  /\ UNCHANGED <<proberPc, readiness>>
    /\ UNCHANGED <<acceptAt, readyCount, navCount, diagCount>>
    /\ UNCHANGED setupVars
    /\ UNCHANGED <<slot, lock, puts>>
    /\ UNCHANGED closeVars

\* the deadline has not passed and the connect fails; is_ok() drops the
\* error, so every kind of error takes this one path: thread::sleep(300 ms)
\* and back to the top of the loop
ProbeRetry ==
    /\ proberPc = "poll"
    /\ ~DeadlinePassed(now)
    /\ ~Accepting(now)
    /\ now' = now + PollInterval
    /\ UNCHANGED <<proberPc, acceptAt, readiness, readyCount, navCount, diagCount>>
    /\ UNCHANGED setupVars
    /\ UNCHANGED <<slot, lock, puts>>
    /\ UNCHANGED closeVars

\* get_webview_window("main") is Some: window.eval("window.location.href = url")
ProbeNavigate ==
    /\ proberPc = "nav"
    /\ MainWindow \in open
    /\ navCount' = navCount + 1
    /\ proberPc' = "done"
    /\ UNCHANGED <<now, acceptAt, readiness, readyCount, diagCount>>
    /\ UNCHANGED setupVars
    /\ UNCHANGED <<slot, lock, puts>>
    /\ UNCHANGED closeVars

\* get_webview_window("main") is None: nothing is done
ProbeNoWindow ==
    /\ proberPc = "nav"
    /\ MainWindow \notin open
    /\ proberPc' = "done"
    /\ UNCHANGED <<now, acceptAt, readiness, readyCount, navCount, diagCount>>
    /\ UNCHANGED setupVars
    /\ UNCHANGED <<slot, lock, puts>>
    /\ UNCHANGED closeVars

\* a bug: on the timeout the thread takes the handle and kills the sidecar
ProbeDiagKills ==
    /\ proberPc = "diag"
    /\ lock = "free"
    /\ diagCount' = diagCount + 1
    /\ slot' = None
    /\ kills' = IF slot # None THEN kills + 1 ELSE kills
    /\ proberPc' = "done"
    /\ UNCHANGED <<now, acceptAt, readiness, readyCount, navCount>>
    /\ UNCHANGED setupVars
    /\ UNCHANGED <<lock, puts>>
    /\ UNCHANGED <<open, closePc, closeWin, child, seen, takes, someTakes,
                   lastKill, handlerErr, closes>>

\* a bug: after the timeout the thread tries the port once more and
\* navigates if it answers
ProbeDiagLastChance ==
    /\ proberPc = "diag"
    /\ diagCount' = diagCount + 1
    /\ IF Accepting(now)
          THEN /\ readiness' = "Ready"
               /\ readyCount' = readyCount + 1
               /\ proberPc' = "nav"
          ELSE /\ proberPc' = "done"
               /\ UNCHANGED <<readiness, readyCount>>
    /\ UNCHANGED <<now, acceptAt, navCount>>
    /\ UNCHANGED setupVars
    /\ UNCHANGED <<slot, lock, puts>>
    /\ UNCHANGED closeVars

\* eprintln!("[handai] Next.js server failed to start within 20s")
ProbeDiag ==
    /\ proberPc = "diag"
    /\ diagCount' = diagCount + 1
    /\ proberPc' = "done"
    /\ UNCHANGED <<now, acceptAt, readiness, readyCount, navCount>>
    /\ UNCHANGED setupVars
    /\ UNCHANGED <<slot, lock, puts>>
    /\ UNCHANGED closeVars

Probe ==
    \/ ProbeDeadline
    \/ ProbeConnectOk
    \/ ProbeRetry
    \/ ProbeNavigate
    \/ ProbeNoWindow
    \/ ProbeDiag

(***************************************************************************)
(* The window-event handler, for a WindowEvent::CloseRequested.            *)
(***************************************************************************)
\* a bug: the handler may run while the setup hook is still running (it
\* still takes the Mutex)
CloseRequestedAnytime(w) ==
    /\ mainPc # "panicked"
    /\ closePc = "idle"
    /\ w \in open
    /\ lock = "free"
    /\ lock' = "close"
    /\ closePc' = "locked"
    /\ closeWin' = w
    /\ UNCHANGED <<open, child, seen, takes, someTakes, kills, lastKill,
                   handlerErr, closes>>
    /\ UNCHANGED setupVars
    /\ UNCHANGED <<slot, puts>>
    /\ UNCHANGED probeVars

\* the event loop delivers CloseRequested for window w; state.0.lock().unwrap()
CloseRequested(w) ==
    /\ mainPc = "loop"
    /\ closePc = "idle"
    /\ w \in open
    /\ lock = "free"
    /\ lock' = "close"
    /\ closePc' = "locked"
    /\ closeWin' = w
    /\ UNCHANGED <<open, child, seen, takes, someTakes, kills, lastKill,
                   handlerErr, closes>>
    /\ UNCHANGED setupVars
    /\ UNCHANGED <<slot, puts>>
    /\ UNCHANGED probeVars

\* a bug: the handle is read out of the slot but the slot is not emptied
CloseTakeKeeps ==
    /\ closePc = "locked"
    /\ seen' = slot
    /\ child' = slot
    /\ takes' = takes + 1
    /\ someTakes' = IF slot # None THEN someTakes + 1 ELSE someTakes
    /\ lock' = "free"
    /\ closePc' = "taken"
    /\ UNCHANGED <<slot, open, closeWin, kills, lastKill, handlerErr, closes>>
    /\ UNCHANGED setupVars
    /\ UNCHANGED puts
    /\ UNCHANGED probeVars

\* a bug: if let Some(child) = state.0.lock().unwrap().take() { .. }: the
\* guard is a temporary of the if-let and lives to the end of its block
CloseTakeHoldsLock ==
    /\ closePc = "locked"
    /\ seen' = slot
    /\ child' = slot
    /\ slot' = None
    /\ takes' = takes + 1
    /\ someTakes' = IF slot # None THEN someTakes + 1 ELSE someTakes
    /\ closePc' = "taken"
    /\ UNCHANGED <<open, closeWin, kills, lastKill, handlerErr, closes>>
    /\ UNCHANGED setupVars
    /\ UNCHANGED <<lock, puts>>
    /\ UNCHANGED probeVars

\* let x = guard.take(); the guard is dropped at the end of the statement
CloseTake ==
    /\ closePc = "locked"
    /\ seen' = slot
    /\ child' = slot
    /\ slot' = None
    /\ takes' = takes + 1
    /\ someTakes' = IF slot # None THEN someTakes + 1 ELSE someTakes
    /\ lock' = "free"
    /\ closePc' = "taken"
    /\ UNCHANGED <<open, closeWin, kills, lastKill, handlerErr, closes>>
    /\ UNCHANGED setupVars
    /\ UNCHANGED puts
    /\ UNCHANGED probeVars

\* a bug: child.kill().unwrap(): an Err makes the handler panic
Unwrapped(r) == r = "err"

\* let _ = r: does the Result r make the handler fail?  It is dropped, Ok
\* or Err alike, so it never does.
Discard(r) == FALSE

\* a bug: the handle is dropped without a kill (dropping a CommandChild
\* leaves the process running)
CloseKillDropped ==
    /\ closePc = "taken"
    /\ child # None
    /\ child' = None
    /\ open' = open \ {closeWin}
    /\ closeWin' = 0
    /\ closes' = closes + 1
    /\ closePc' = "idle"
    /\ UNCHANGED <<seen, takes, someTakes, kills, lastKill, handlerErr>>
    /\ UNCHANGED setupVars
    /\ UNCHANGED <<slot, lock, puts>>
    /\ UNCHANGED probeVars

\* a bug: a handle whose kill failed is stored back for a later attempt
CloseKillRestores ==
    /\ closePc = "taken"
    /\ child # None
    /\ \E r \in Results :
          /\ kills' = kills + 1
          /\ lastKill' = r
          /\ handlerErr' = (handlerErr \/ Discard(r))
          /\ slot' = IF r = "err" THEN child ELSE slot
    /\ child' = None
    /\ open' = open \ {closeWin}
    /\ closeWin' = 0
    /\ closes' = closes + 1
    /\ closePc' = "idle"
    /\ UNCHANGED <<seen, takes, someTakes>>
    /\ UNCHANGED setupVars
    /\ UNCHANGED <<lock, puts>>
    /\ UNCHANGED probeVars

\* a bug: the shutdown also stops a probe that is still polling
CloseKillCancels ==
    /\ closePc = "taken"
    /\ child # None
    /\ \E r \in Results :
          /\ kills' = kills + 1
          /\ lastKill' = r
          /\ handlerErr' = (handlerErr \/ Discard(r))
    /\ child' = None
    /\ open' = open \ {closeWin}
    /\ closeWin' = 0
    /\ closes' = closes + 1
    /\ closePc' = "idle"
    /\ proberPc' = IF proberPc = "poll" THEN "done" ELSE proberPc
    /\ UNCHANGED <<seen, takes, someTakes>>
    /\ UNCHANGED setupVars
    /\ UNCHANGED <<slot, lock, puts>>
    /\ UNCHANGED <<now, acceptAt, readiness, readyCount, navCount, diagCount>>

\* if let Some(child) = child { let _ = child.kill(); }  and the handler
\* returns; the window is then closed by the runtime
CloseKill ==
    /\ closePc = "taken"
    /\ child # None
    /\ \E r \in Results :
          /\ kills' = kills + 1
          /\ lastKill' = r
          /\ handlerErr' = (handlerErr \/ Discard(r))
    /\ child' = None
    /\ open' = open \ {closeWin}
    /\ closeWin' = 0
    /\ closes' = closes + 1
    /\ closePc' = "idle"
    /\ UNCHANGED <<seen, takes, someTakes>>
    /\ UNCHANGED setupVars
    /\ UNCHANGED <<slot, lock, puts>>
    /\ UNCHANGED probeVars

\* a bug: the kill is requested without looking at what take() returned
CloseSkipKills ==
    /\ closePc = "taken"
    /\ child = None
    /\ \E r \in Results :
          /\ kills' = kills + 1
          /\ lastKill' = r
          /\ handlerErr' = (handlerErr \/ Discard(r))
    /\ open' = open \ {closeWin}
    /\ closeWin' = 0
    /\ closes' = closes + 1
    /\ closePc' = "idle"
    /\ UNCHANGED <<child, seen, takes, someTakes>>
    /\ UNCHANGED setupVars
    /\ UNCHANGED <<slot, lock, puts>>
    /\ UNCHANGED probeVars

\* take() returned None: the if-let does not match and the handler returns
CloseSkip ==
    /\ closePc = "taken"
    /\ child = None
    /\ open' = open \ {closeWin}
    /\ closeWin' = 0
    /\ closes' = closes + 1
    /\ closePc' = "idle"
    /\ UNCHANGED <<child, seen, takes, someTakes, kills, lastKill, handlerErr>>
    /\ UNCHANGED setupVars
    /\ UNCHANGED <<slot, lock, puts>>
    /\ UNCHANGED probeVars

(***************************************************************************)
(* The get_server_url command, invoked by the web layer of an open window. *)
(***************************************************************************)
\* a bug: the command looks at the port before it answers
GetServerUrlProbes ==
    /\ mainPc = "loop"
    /\ open # {}
    /\ readiness' = IF Accepting(now) THEN "Ready" ELSE readiness
    /\ UNCHANGED <<proberPc, now, acceptAt, readyCount, navCount, diagCount>>
    /\ UNCHANGED setupVars
    /\ UNCHANGED <<slot, lock, puts>>
    /\ UNCHANGED closeVars

\* fn get_server_url() -> String { format!("http://127.0.0.1:{PORT}") }: the
\* command returns the value of get_server_url and touches no state
GetServerUrl ==
    /\ mainPc = "loop"
    /\ open # {}
    /\ UNCHANGED setupVars
    /\ UNCHANGED <<slot, lock, puts>>
    /\ UNCHANGED closeVars
    /\ UNCHANGED probeVars

Setup ==
    \/ SetupDebug
    \/ AppDataDir
    \/ CreateDirAll
    \/ Sidecar
    \/ Spawn
    \/ PutLock
    \/ PutStore
    \/ ThreadSpawn

Close ==
    \/ \E w \in Windows : CloseRequested(w)
    \/ CloseTake
    \/ CloseKill
    \/ CloseSkip

Next == Setup \/ Close \/ Probe \/ GetServerUrl

Spec == Init /\ [][Next]_vars

\* The background thread is an operating-system thread: it is scheduled
\* again and again until its closure returns.
FairSpec == Spec /\ WF_vars(Probe)

(***************************************************************************)
(* The composite state of the launch/probe sequence, read off the          *)
(* positions of the setup hook and of the background thread.               *)
(***************************************************************************)
Phase ==
    IF mainPc = "panicked" THEN "Aborted"
    ELSE IF mainPc = "setup" \/ build = "debug" THEN "Idle"
    ELSE IF proberPc = "none" THEN "Spawning"
    ELSE IF readiness = "Starting" THEN "Probing"
    ELSE readiness

\* the event loop can deliver a CloseRequested to the handler
CloseEvent == \E w \in Windows : CloseRequested(w)

(***************************************************************************)
(* Properties.                                                             *)
(***************************************************************************)

\* C1: a close event that finds a handle in the slot issues exactly one
\* kill for it; over any sequence of close events the number of kill
\* requests is exactly one as soon as a handle was stored and one close
\* handler has run to its end: never two, never zero.
C1_ExactlyOneKill ==
    /\ kills <= 1
    /\ (closes >= 1 /\ puts >= 1) => kills = 1
    /\ (closePc = "idle" /\ someTakes >= 1) => kills = 1
    /\ kills = 1 => someTakes = 1

\* two close events handled after a launch, one kill in all
C1_Witness == closes = 2 /\ puts = 1 /\ someTakes = 1 /\ kills = 1

\* C2: the slot holds 0 or 1 handles in every reachable state; a take() that
\* finds the slot empty returns None, raises no error and leaves the slot
\* empty, and so does the second of two take() calls in a row.
C2_SlotAtMostOne ==
    /\ Len(slot) <= 1
    /\ (closePc = "taken" /\ seen = None) =>
           (child = None /\ slot = None /\ ~handlerErr)
    /\ (closePc = "taken" /\ takes >= 2) =>
           (seen = None /\ child = None /\ slot = None /\ ~handlerErr)

\* the second take() in a row, the first having removed the handle
C2_Witness ==
    /\ puts = 1
    /\ takes = 2
    /\ someTakes = 1
    /\ closePc = "taken"
    /\ child = None

\* C3: if the port accepts connections from tick d, for every d below the
\* 20 s deadline, wait_for_server returns true no later than d + 0.3 s (for
\* d = 2 s: at a time in [2.0 s, 2.3 s]).
C3_ReadyWithinPollInterval ==
    \A d \in acceptAt :
        d < Deadline =>
            /\ proberPc = "poll" => now <= d + PollInterval
            /\ readiness # "Starting" =>
                   (readiness = "Ready" /\ d <= now /\ now <= d + PollInterval)

\* C4: if the port never accepts, wait_for_server returns false at a time
\* within 0.3 s of the 20 s deadline, never true, and it does return: the
\* polling loop ends and the diagnostic is printed.
C4_TimeoutReported ==
    /\ [](acceptAt = {} /\ readiness = "Failed" =>
             (Deadline - PollInterval <= now /\ now <= Deadline + PollInterval))
    /\ [](acceptAt = {} => readiness # "Ready")
    /\ ((proberPc = "poll" /\ acceptAt = {}) ~>
            (proberPc = "done" /\ readiness = "Failed" /\ diagCount = 1))

\* the port never accepted and the timeout was reported just after 20 s
C4_Witness ==
    /\ acceptAt = {}
    /\ proberPc = "done"
    /\ readiness = "Failed"
    /\ now > Deadline
    /\ diagCount = 1

\* C5: in a session wait_for_server returns true at most once and the
\* navigation of the WebView is issued at most once, whatever the
\* interleaving of the background thread with the launch and the shutdown.
C5_ReadyAndNavigateOnce ==
    /\ readyCount <= 1
    /\ navCount <= 1
    /\ navCount <= readyCount

\* Ready, the navigation and a shutdown have all happened
C5_Witness ==
    /\ readyCount = 1
    /\ navCount = 1
    /\ proberPc = "done"
    /\ kills = 1

\* C6: a close event that finds the slot empty (no launch, as in a debug
\* build, or the handle already taken) issues no kill, raises no error and
\* leaves the slot empty.
C6_EmptyCloseIsNoop ==
    /\ (closePc = "taken" /\ seen = None) => (child = None /\ slot = None)
    /\ kills <= someTakes
    /\ puts = 0 => (kills = 0 /\ slot = None)
    /\ (closes >= 1 /\ closePc = "idle") => slot = None
    /\ ~handlerErr

\* a debug build: no launch, a close event handled, no kill
C6_Witness ==
    /\ build = "debug"
    /\ closes >= 1
    /\ closePc = "idle"
    /\ seen = None
    /\ kills = 0

\* C7: a failed launch ends the application before any handle is stored, so
\* no take() ever returns one; in every reachable state a handle in the slot
\* (or in the handler's hands) is that of a process that was spawned.
C7_HandleImpliesSpawned ==
    /\ slot # None => spawned
    /\ child # None => spawned
    /\ mainPc = "panicked" =>
           (slot = None /\ puts = 0 /\ someTakes = 0 /\ ~spawned)

\* the launch failed after the data directory was resolved
C7_Witness ==
    /\ mainPc = "panicked"
    /\ dirCreated # "none"
    /\ ~spawned
    /\ slot = None

\* the store of the handle is still to come: the setup hook of a release
\* build has neither stored the handle nor failed
PutPending == build = "release" /\ puts = 0 /\ mainPc # "panicked"

\* C8 (as amended): the put happens before any take: no take by the close
\* handler observes the slot before the launcher stored the handle of a
\* spawned process.  It holds because the setup hook runs to its end on the
\* event thread before the loop delivers any window event; the Mutex only
\* keeps the two accesses apart.
C8_PutBeforeTake ==
    /\ (build = "release" /\ (closePc # "idle" \/ takes > 0)) =>
           (puts = 1 /\ spawned)
    /\ PutPending => (closePc = "idle" /\ takes = 0 /\ mainPc # "loop")
    /\ lock = "close" => mainPc = "loop"
    /\ lock = "setup" => closePc = "idle"

\* a take that found the stored handle
C8_Witness ==
    /\ build = "release"
    /\ takes = 1
    /\ someTakes = 1
    /\ puts = 1

\* C8 (as stated): the put happens before any take, and it is the Registry's
\* mutual exclusion that enforces it: while the store is still to come the
\* Mutex is held against the close handler.
C8_Original ==
    /\ (build = "release" /\ (closePc # "idle" \/ takes > 0)) =>
           (puts = 1 /\ spawned)
    /\ PutPending => lock = "setup"

\* C9 (as amended): over a session take() returns a handle at most once;
\* once the handle is taken the slot stays empty (no second put); and the
\* shutdown can occur in every state reached after the setup hook returned:
\* while probing, after Ready, after Failed.
C9_TakenOnceThenEmpty ==
    /\ someTakes <= 1
    /\ puts <= 1
    /\ someTakes = 1 => (slot = None /\ puts = 1)
    /\ (Phase \in {"Probing", "Ready", "Failed"}
          /\ closePc = "idle" /\ open # {}) => ENABLED CloseEvent

\* the handle was taken while the probe was still running
C9_Witness ==
    /\ someTakes = 1
    /\ closePc = "idle"
    /\ Phase = "Probing"
    /\ slot = None

\* C9 (as stated): the same, the shutdown being possible from any state of
\* the launch/probe sequence, Idle and Spawning included.
C9_Original ==
    /\ someTakes <= 1
    /\ puts <= 1
    /\ someTakes = 1 => (slot = None /\ puts = 1)
    /\ (Phase \in {"Idle", "Spawning", "Probing", "Ready", "Failed"}
          /\ closePc = "idle" /\ open # {}) => ENABLED CloseEvent

\* C10: the readiness state starts as Starting and, once Ready or Failed,
\* never changes again.
C10_ReadinessMonotonic ==
    /\ readiness = "Starting"
    /\ [][readiness # "Starting" => readiness' = readiness]_vars

\* Ready was reported and the thread went on to its end
C10_Witness == readiness = "Ready" /\ proberPc = "done"

C12_NavigateOnlyAfterConnect ==
    /\ navCount >= 1 => (readiness = "Ready" /\ Accepting(now))
    /\ proberPc = "nav" => readiness = "Ready"
    /\ readiness = "Ready" => Accepting(now)
    /\ readiness = "Failed" => (navCount = 0 /\ proberPc \in {"diag", "done"})
    /\ (readiness = "Failed" /\ proberPc = "done") => diagCount = 1
    /\ diagCount >= 1 => readiness = "Failed"

\* the timeout ended the thread with the main window still there: no
\* navigation, one diagnostic
C12_Witness ==
    /\ readiness = "Failed"
    /\ proberPc = "done"
    /\ MainWindow \in open
    /\ navCount = 0
    /\ diagCount = 1

\* C13: get_server_url is pure: in every state it returns the same URL, made
\* of the fixed port 3947; it performs no probe and leaves the Registry, the
\* readiness state and everything else unchanged.
C13_GetServerUrlPure ==
    /\ [](get_server_url = <<"http://127.0.0.1:", 3947>>)
    /\ [][GetServerUrl => UNCHANGED vars]_vars

\* the command can be invoked after the shutdown and after Ready
C13_Witness ==
    /\ ENABLED GetServerUrl
    /\ kills = 1
    /\ slot = None
    /\ readiness = "Ready"

\* C14: wait_for_server never returns false before the 20 s deadline has
\* passed: every connect that fails before the deadline, whatever the error,
\* is followed by one 300 ms sleep and the next turn of the loop.
C14_NoFailureBeforeDeadline ==
    /\ readiness = "Failed" => now > Deadline
    /\ proberPc = "diag" => now > Deadline
    /\ diagCount >= 1 => now > Deadline
    /\ proberPc = "poll" => now % PollInterval = 0
    /\ (proberPc = "poll" /\ now > 0) => ~Accepting(now - PollInterval)

\* the port opened too late: every attempt up to the deadline was retried
C14_Witness ==
    /\ readiness = "Failed"
    /\ acceptAt # {}
    /\ now > Deadline

\* C15: the background thread never reads or writes the slot: each of its
\* steps leaves the Registry as it is, so a Ready signal that comes after the
\* handle was taken causes no further put, take or kill.
C15_ProberLeavesRegistryAlone ==
    /\ [][Probe => UNCHANGED <<slot, lock, puts, takes, someTakes, kills,
                               child, seen>>]_vars
    /\ []((proberPc = "done" /\ closePc = "idle" /\ someTakes = 1) =>
              (slot = None /\ puts = 1 /\ takes = closes /\ kills = 1))

\* every window closed and the sidecar killed, then Ready and the thread's end
C15_Witness ==
    /\ proberPc = "done"
    /\ readyCount = 1
    /\ open = {}
    /\ someTakes = 1
    /\ kills = 1
    /\ puts = 1

\* C16: the launcher's put is executed at most once per session and always
\* finds the slot empty: no store overwrites an occupied slot.
C16_PutOnceOnEmpty ==
    /\ [](puts <= 1)
    /\ [][puts' # puts =>
              (puts = 0 /\ slot = None /\ slot' = Some(Child)
                 /\ lock = "setup")]_vars

\* the handle has just been stored
C16_Witness ==
    /\ puts = 1
    /\ slot = Some(Child)
    /\ mainPc = "thread"

\* C17: the session goes Idle, Spawning, Probing, then Ready or Failed: the
\* background thread is started only after the spawn succeeded and the
\* handle was stored, and at most one is started per session.
C17_LaunchOrder ==
    /\ [](probers <= 1)
    /\ [](probers = 1 <=> proberPc # "none")
    /\ [](proberPc # "none" => (spawned /\ puts = 1 /\ mainPc = "loop"))
    /\ [][probers' # probers =>
              (spawned /\ slot = Some(Child) /\ lock = "free"
                 /\ Phase = "Spawning" /\ Phase' = "Probing")]_vars
    /\ [][Phase' # Phase =>
              <<Phase, Phase'>> \in
                  {<<"Idle", "Spawning">>, <<"Idle", "Aborted">>,
                   <<"Spawning", "Aborted">>, <<"Spawning", "Probing">>,
                   <<"Probing", "Ready">>, <<"Probing", "Failed">>}]_vars

\* the one thread of the session has reported Ready
C17_Witness ==
    /\ Phase = "Ready"
    /\ probers = 1
    /\ spawned

\* C18: a failing kill is swallowed: when kill returns an error the close
\* handler still ends without error, the slot is empty afterwards and the
\* kill is not tried again.
C18_KillErrorSwallowed ==
    /\ ~handlerErr
    /\ lastKill = "err" =>
           (closes >= 1 /\ kills = 1 /\ slot = None /\ child = None)

\* the kill failed and a later close event made no second attempt
C18_Witness ==
    /\ lastKill = "err"
    /\ closes = 2
    /\ kills = 1
    /\ ~handlerErr

\* C19: a failure to create the data directory is not fatal: the launcher
\* still spawns the child, with DATABASE_URL made from that directory, and
\* stores its handle; an unavailable application data directory aborts the
\* setup before any spawn.
C19_CreateDirFailureNotFatal ==
    /\ [][(mainPc = "mkdir" /\ mainPc' # mainPc) => mainPc' = "sidecar"]_vars
    /\ [](slot # None =>
              (/\ dataDir = Some(AppDataPath)
               /\ env # None
               /\ env[1].DATABASE_URL = DbUrl(AppDataPath)))
    /\ [](dataDir = None => (~spawned /\ slot = None /\ puts = 0))
    /\ []((mainPc = "panicked" /\ dataDir = None) => dirCreated = "none")

\* create_dir_all failed and the child was spawned and stored all the same
C19_Witness ==
    /\ dirCreated = "err"
    /\ spawned
    /\ slot = Some(Child)
    /\ env # None

\* C20: the close handler holds the Mutex for the take only: it is released
\* before the kill is requested, no kill is in progress while the Mutex is
\* held, and the handler acquires it once.
C20_LockHeldOnlyForTake ==
    /\ [](closePc = "taken" => lock = "free")
    /\ [](lock = "close" <=> closePc = "locked")
    /\ [][kills' # kills => (lock = "free" /\ lock' = "free")]_vars
    /\ [][(lock' = "close" /\ lock # "close") =>
              (closePc = "idle" /\ closePc' = "locked")]_vars

\* the handle is in the handler's hands, the Mutex released, the kill to come
C20_Witness ==
    /\ closePc = "taken"
    /\ child # None
    /\ lock = "free"

====
